---- MODULE Spec2Model ----
(***************************************************************************)
(* A model of the n-tree of src/src/lib.rs: a Branch/Bucket tree over a    *)
(* caller-supplied Region, with insert (splitting full buckets), remove,   *)
(* nearby, contains and the stack-driven range-query cursor.               *)
(*                                                                         *)
(* The Region used here is the 2D half-open square that splits into four   *)
(* equal quadrants.  A region is [lvl, x0, y0, x1, y1] and stands for      *)
(* [x0/2^lvl, x1/2^lvl) x [y0/2^lvl, y1/2^lvl), so that halving is exact   *)
(* at every depth.  A point is a pair <<x, y>> of integers.  A region with  *)
(* gap = TRUE is a defective one: its split leaves out the quadrant C, so   *)
(* that the points of C are in the region and in none of its sub-regions.   *)
(***************************************************************************)
EXTENDS Integers, Sequences, FiniteSets, Bags, TLC

VARIABLES
    tree,       \* the root NTree
    size,       \* the `size` argument given to NTree::new
    status,     \* "running", or how the last call ended the process:
                \* "diverged" (it never returns) or "panicked"
    hist,       \* the last two insert/remove calls: [op, arg, st, ret]
    calls,      \* number of insert/remove calls made so far
    inserted,   \* bag of the points whose insert returned true
    removed,    \* bag of the points whose remove returned true
    obs,        \* Some(result) of the latest nearby/contains call on this tree
    cursor,     \* the live RangeQuery: [live, query, points, stack]
    yielded,    \* the points the live cursor has returned so far
    finished,   \* the latest next() of the live cursor returned None
    nones       \* number of next() calls of the live cursor that returned None

vars == <<tree, size, status, hist, calls, inserted, removed, obs, cursor,
          yielded, finished, nones>>

----------------------------------------------------------------------------
(* Bounds of the model *)

\* insert/remove calls in one behaviour
MaxCalls == 4
\* largest `size` given to NTree::new
MaxSize == 2
\* nested split_and_insert calls after which an insert is taken to recurse
\* forever: with integer points and a root of side 8 the bucket that would be
\* split next has side at most 1/2, so all the points in it are equal and
\* every further split puts them into one child again
MaxSplitDepth == 3
\* next() calls made on a cursor after it has run out
MaxNones == 2

\* u8 arithmetic of `points.len() as u8`
U8 == 256

----------------------------------------------------------------------------
(* The Region: half-open squares splitting into four quadrants *)

RECURSIVE Pow2(_)
Pow2(n) == IF n = 0 THEN 1 ELSE 2 * Pow2(n - 1)

Rect(x0, y0, x1, y1) ==
    [lvl |-> 0, x0 |-> x0, y0 |-> y0, x1 |-> x1, y1 |-> y1, gap |-> FALSE]

\* a region whose split breaks the partition invariant
GapRect(x0, y0, x1, y1) ==
    [lvl |-> 0, x0 |-> x0, y0 |-> y0, x1 |-> x1, y1 |-> y1, gap |-> TRUE]

\* Region::contains
RContains(r, p) ==
    LET s == Pow2(r.lvl) IN
    /\ r.x0 <= p[1] * s /\ p[1] * s < r.x1
    /\ r.y0 <= p[2] * s /\ p[2] * s < r.y1

\* Region::split: quadrants A (low x, low y), B (high x, low y),
\* C (high x, high y), D (low x, high y); a defective region leaves C out
RSplit(r) ==
    LET l  == r.lvl + 1
        mx == r.x0 + r.x1
        my == r.y0 + r.y1
        g  == r.gap
        A  == [lvl |-> l, x0 |-> 2 * r.x0, y0 |-> 2 * r.y0, x1 |-> mx,
               y1 |-> my, gap |-> g]
        B  == [lvl |-> l, x0 |-> mx, y0 |-> 2 * r.y0, x1 |-> 2 * r.x1,
               y1 |-> my, gap |-> g]
        C  == [lvl |-> l, x0 |-> mx, y0 |-> my, x1 |-> 2 * r.x1,
               y1 |-> 2 * r.y1, gap |-> g]
        D  == [lvl |-> l, x0 |-> 2 * r.x0, y0 |-> my, x1 |-> mx,
               y1 |-> 2 * r.y1, gap |-> g]
    IN IF g THEN <<A, B, D>> ELSE <<A, B, C, D>>

\* Region::overlaps
ROverlaps(a, b) ==
    LET sa == Pow2(a.lvl)
        sb == Pow2(b.lvl)
    IN /\ a.x0 * sb < b.x1 * sa /\ b.x0 * sa < a.x1 * sb
       /\ a.y0 * sb < b.y1 * sa /\ b.y0 * sa < a.y1 * sb

----------------------------------------------------------------------------
(* Inputs *)

Root4 == Rect(0, 0, 4, 4)
Root8 == Rect(0, 0, 8, 8)
Roots == {Root4, Root8}

\* the root of the trees built over a defective region
GapRoot == GapRect(0, 0, 4, 4)

Sizes == 0 .. MaxSize

PointSet == { <<0, 0>>, <<1, 1>>, <<2, 2>>, <<5, 5>>, <<9, 9>> }

\* query regions; every tree is also queried with its own root region
Queries == { Rect(0, 0, 2, 2), Rect(2, 2, 6, 6) }

----------------------------------------------------------------------------
(* NTree and NTreeVariant *)

Bucket(region, points, bucket_limit) ==
    [region |-> region, kind |-> "Bucket", points |-> points,
     bucket_limit |-> bucket_limit]

Branch(region, subregions) ==
    [region |-> region, kind |-> "Branch", subregions |-> subregions]

\* a new that lays the children out in the reverse of the split order
new_reversed(region, sz) ==
    LET subs == RSplit(region)
    IN Branch(region, [i \in 1 .. Len(subs) |->
                          Bucket(subs[Len(subs) + 1 - i], << >>, sz)])

\* NTree::new
new(region, sz) ==
    LET subs == RSplit(region)
    IN Branch(region, [i \in 1 .. Len(subs) |-> Bucket(subs[i], << >>, sz)])

\* a find that takes the first child without testing its region
find_first(subregions, point) ==
    IF subregions = << >> THEN 0 ELSE 1

\* subregions.iter().find(|n| n.region.contains(point)): the index of the
\* first child whose region contains the point, 0 for None
find(subregions, point) ==
    LET hits == {i \in 1 .. Len(subregions) :
                    RContains(subregions[i].region, point)}
    IN IF hits = {} THEN 0 ELSE CHOOSE i \in hits : \A j \in hits : i <= j

\* outcomes of a call: it returns `ret` leaving `tree`, or it never returns
Returned(t, ret) == [st |-> "ok", ret |-> ret, tree |-> t]
Panicked(t) == [st |-> "panicked", ret |-> FALSE, tree |-> t]
Diverged(t) == [st |-> "diverged", ret |-> FALSE, tree |-> t]

RECURSIVE insert(_, _, _)
RECURSIVE insert_loop(_, _, _)
RECURSIVE split_and_insert(_, _, _)
RECURSIVE reinsert(_, _, _)

\* an insert without the test of the root region
insert_nocheck(self, point, depth) == insert_loop(self, point, depth)

\* NTree::insert; depth counts the split_and_insert calls it is nested in
insert(self, point, depth) ==
    IF ~RContains(self.region, point)
    THEN Returned(self, FALSE)
    ELSE insert_loop(self, point, depth)

\* an insert that reports success on a bucket with room but pushes nothing
insert_loop_nopush(node, point, depth) ==
    IF node.kind = "Branch"
    THEN LET i == find(node.subregions, point) IN
         IF i = 0
         THEN Panicked(node)
         ELSE LET r == insert_loop(node.subregions[i], point, depth) IN
              [r EXCEPT !.tree = Branch(node.region,
                                   [node.subregions EXCEPT ![i] = r.tree])]
    ELSE IF (Len(node.points) % U8) # node.bucket_limit
         THEN Returned(node, TRUE)
         ELSE LET r == split_and_insert(node, point, depth) IN
              IF r.st = "ok" THEN Returned(r.tree, TRUE) ELSE r

\* an insert that splits one point too late: a full bucket takes one more
insert_loop_late(node, point, depth) ==
    IF node.kind = "Branch"
    THEN LET i == find(node.subregions, point) IN
         IF i = 0
         THEN Panicked(node)
         ELSE LET r == insert_loop(node.subregions[i], point, depth) IN
              [r EXCEPT !.tree = Branch(node.region,
                                   [node.subregions EXCEPT ![i] = r.tree])]
    ELSE IF (Len(node.points) % U8) # node.bucket_limit + 1
         THEN Returned([node EXCEPT !.points = Append(@, point)], TRUE)
         ELSE LET r == split_and_insert(node, point, depth) IN
              IF r.st = "ok" THEN Returned(r.tree, TRUE) ELSE r

\* an insert that splits one point too early: a bucket is never filled
insert_loop_early(node, point, depth) ==
    IF node.kind = "Branch"
    THEN LET i == find(node.subregions, point) IN
         IF i = 0
         THEN Panicked(node)
         ELSE LET r == insert_loop(node.subregions[i], point, depth) IN
              [r EXCEPT !.tree = Branch(node.region,
                                   [node.subregions EXCEPT ![i] = r.tree])]
    ELSE IF ((Len(node.points) + 1) % U8) # node.bucket_limit
         THEN Returned([node EXCEPT !.points = Append(@, point)], TRUE)
         ELSE LET r == split_and_insert(node, point, depth) IN
              IF r.st = "ok" THEN Returned(r.tree, TRUE) ELSE r

\* an insert that puts the point at the front of the list
insert_loop_prepend(node, point, depth) ==
    IF node.kind = "Branch"
    THEN LET i == find(node.subregions, point) IN
         IF i = 0
         THEN Panicked(node)
         ELSE LET r == insert_loop(node.subregions[i], point, depth) IN
              [r EXCEPT !.tree = Branch(node.region,
                                   [node.subregions EXCEPT ![i] = r.tree])]
    ELSE IF (Len(node.points) % U8) # node.bucket_limit
         THEN Returned([node EXCEPT !.points = <<point>> \o @], TRUE)
         ELSE LET r == split_and_insert(node, point, depth) IN
              IF r.st = "ok" THEN Returned(r.tree, TRUE) ELSE r

\* an insert that answers true for a point equal to one of a full Bucket
\* without storing it
insert_loop_dedup(node, point, depth) ==
    IF node.kind = "Branch"
    THEN LET i == find(node.subregions, point) IN
         IF i = 0
         THEN Panicked(node)
         ELSE LET r == insert_loop(node.subregions[i], point, depth) IN
              [r EXCEPT !.tree = Branch(node.region,
                                   [node.subregions EXCEPT ![i] = r.tree])]
    ELSE IF (Len(node.points) % U8) # node.bucket_limit
         THEN Returned([node EXCEPT !.points = Append(@, point)], TRUE)
         ELSE IF \E i \in DOMAIN node.points : node.points[i] = point
              THEN Returned(node, TRUE)
              ELSE LET r == split_and_insert(node, point, depth) IN
                   IF r.st = "ok" THEN Returned(r.tree, TRUE) ELSE r

\* the descent loop of insert, from current_node
insert_loop(node, point, depth) ==
    IF node.kind = "Branch"
    THEN LET i == find(node.subregions, point) IN
         IF i = 0
         THEN Panicked(node)
         ELSE LET r == insert_loop(node.subregions[i], point, depth) IN
              [r EXCEPT !.tree = Branch(node.region,
                                   [node.subregions EXCEPT ![i] = r.tree])]
    ELSE IF (Len(node.points) % U8) # node.bucket_limit
         THEN Returned([node EXCEPT !.points = Append(@, point)], TRUE)
         ELSE LET r == split_and_insert(node, point, depth) IN
              IF r.st = "ok" THEN Returned(r.tree, TRUE) ELSE r

\* a reinsertion that leaves out the last of the old points
reinsert_lossy(bucket, pts, depth) ==
    IF pts = << >>
    THEN Returned(bucket, TRUE)
    ELSE IF Len(pts) = 2
         THEN reinsert(bucket, Tail(pts), depth)
         ELSE LET r == insert(bucket, Head(pts), depth) IN
              IF r.st = "ok" THEN reinsert(r.tree, Tail(pts), depth) ELSE r

\* the `for old_point in old_points` loop of split_and_insert, followed by
\* the insert of the new point (the last element of pts); the results of the
\* inserts are dropped
reinsert(bucket, pts, depth) ==
    IF pts = << >>
    THEN Returned(bucket, TRUE)
    ELSE LET r == insert(bucket, Head(pts), depth) IN
         IF r.st = "ok" THEN reinsert(r.tree, Tail(pts), depth) ELSE r

\* a split whose new Buckets do not get the old bucket_limit
split_and_insert_limit1(bucket, point, depth) ==
    IF depth >= MaxSplitDepth
    THEN Diverged(bucket)
    ELSE LET old_points == bucket.points
         IN reinsert(new(bucket.region, 1), Append(old_points, point), depth + 1)

\* split_and_insert: the Bucket becomes new(its region, its bucket_limit) and
\* takes its old points and then the new one; a call nested MaxSplitDepth
\* deep is taken to recurse without end
\* a split whose new Buckets get a larger bucket_limit than the old one
split_and_insert_grow(bucket, point, depth) ==
    IF depth >= MaxSplitDepth
    THEN Diverged(bucket)
    ELSE LET old_points == bucket.points
             old_bucket_limit == bucket.bucket_limit
         IN reinsert(new(bucket.region, old_bucket_limit + 1),
                     Append(old_points, point), depth + 1)

split_and_insert(bucket, point, depth) ==
    IF depth >= MaxSplitDepth
    THEN Diverged(bucket)
    ELSE LET old_points == bucket.points
             old_bucket_limit == bucket.bucket_limit
         IN reinsert(new(bucket.region, old_bucket_limit),
                     Append(old_points, point), depth + 1)

----------------------------------------------------------------------------
(* remove, contains, nearby *)

\* a position that never answers None for a Bucket with points
position_first(points, point) ==
    IF points = << >> THEN 0 ELSE 1

\* points.iter().position(|x| x == point): 0 for None
position(points, point) ==
    LET hits == {i \in 1 .. Len(points) : points[i] = point}
    IN IF hits = {} THEN 0 ELSE CHOOSE i \in hits : \A j \in hits : i <= j

\* a removal of the first element, whatever the index
swap_remove_head(points, idx) == Tail(points)

\* a removal that cuts the list at the index
swap_remove_trunc(points, idx) == SubSeq(points, 1, idx - 1)

\* Vec::swap_remove: the last element takes the place of the removed one
swap_remove(points, idx) ==
    [i \in 1 .. Len(points) - 1 |->
        IF i = idx THEN points[Len(points)] ELSE points[i]]

RECURSIVE remove_loop(_, _)

\* the descent loop of remove, from current_node
remove_loop(node, point) ==
    IF node.kind = "Branch"
    THEN LET i == find(node.subregions, point) IN
         IF i = 0
         THEN Panicked(node)
         ELSE LET r == remove_loop(node.subregions[i], point) IN
              [r EXCEPT !.tree = Branch(node.region,
                                   [node.subregions EXCEPT ![i] = r.tree])]
    ELSE LET idx == position(node.points, point) IN
         IF idx = 0
         THEN Returned(node, FALSE)
         ELSE Returned([node EXCEPT !.points = swap_remove(@, idx)], TRUE)

\* NTree::remove
remove(self, point) ==
    IF ~RContains(self.region, point)
    THEN Returned(self, FALSE)
    ELSE remove_loop(self, point)

\* NTree::contains
contains(self, point) == RContains(self.region, point)

\* Option: None is << >>, Some(x) is <<x>>
None == << >>
Some(x) == <<x>>

RECURSIVE nearby(_, _)

\* a nearby that always descends into the first child
nearby_first(self, point) ==
    IF RContains(self.region, point)
    THEN IF self.kind = "Bucket"
         THEN Some(self.points)
         ELSE nearby(self.subregions[1], point)
    ELSE None

\* NTree::nearby
nearby(self, point) ==
    IF RContains(self.region, point)
    THEN IF self.kind = "Bucket"
         THEN Some(self.points)
         ELSE LET i == find(self.subregions, point) IN
              IF i = 0 THEN None ELSE nearby(self.subregions[i], point)
    ELSE None

----------------------------------------------------------------------------
(* RangeQuery *)

\* NTree::range_query: no candidate points, the root alone on the stack
range_query(self, query) ==
    [live |-> TRUE, query |-> query, points |-> << >>, stack |-> << <<self>> >>]

RECURSIVE next_outer(_, _, _)
RECURSIVE region_search(_, _)
RECURSIVE children(_, _, _)

\* The result of a next() call is [ret, points, stack] together with what the
\* call looked at: tested, the points it compared with the query, and
\* entered, the regions of the nodes it went into (a Bucket whose points
\* became the candidates, a Branch whose children it started to iterate).

\* a cursor that returns every candidate point, inside the query or not
next_outer_nofilter(query, points, stack) ==
    IF points # << >>
    THEN [ret |-> Some(Head(points)), points |-> Tail(points), stack |-> stack,
          tested |-> << >>, entered |-> << >>]
    ELSE region_search(query, stack)

\* a cursor that returns a candidate point without moving past it
next_outer_stuck(query, points, stack) ==
    IF points # << >>
    THEN IF RContains(query, Head(points))
         THEN [ret |-> Some(Head(points)), points |-> points, stack |-> stack,
               tested |-> <<Head(points)>>, entered |-> << >>]
         ELSE LET r == next_outer(query, Tail(points), stack) IN
              [r EXCEPT !.tested = <<Head(points)>> \o @]
    ELSE region_search(query, stack)

\* 'outer: the next candidate point inside the query, else a new region
next_outer(query, points, stack) ==
    IF points # << >>
    THEN IF RContains(query, Head(points))
         THEN [ret |-> Some(Head(points)), points |-> Tail(points),
               stack |-> stack,
               tested |-> <<Head(points)>>, entered |-> << >>]
         ELSE LET r == next_outer(query, Tail(points), stack) IN
              [r EXCEPT !.tested = <<Head(points)>> \o @]
    ELSE region_search(query, stack)

\* a cursor that takes the oldest entry of the stack instead of the newest
region_search_fifo(query, stack) ==
    IF stack = << >>
    THEN [ret |-> None, points |-> << >>, stack |-> << >>,
          tested |-> << >>, entered |-> << >>]
    ELSE children(query, Head(stack), Tail(stack))

\* 'region_search: pop the iterator over the remaining siblings
region_search(query, stack) ==
    IF stack = << >>
    THEN [ret |-> None, points |-> << >>, stack |-> << >>,
          tested |-> << >>, entered |-> << >>]
    ELSE children(query, stack[Len(stack)], SubSeq(stack, 1, Len(stack) - 1))

\* a cursor that goes into every child, overlapping the query or not
children_noprune(query, children_iter, stack) ==
    IF children_iter = << >>
    THEN region_search(query, stack)
    ELSE LET value == Head(children_iter)
             rest  == Tail(children_iter)
             r     == IF value.kind = "Bucket"
                      THEN next_outer(query, value.points, Append(stack, rest))
                      ELSE children(query, value.subregions, Append(stack, rest))
         IN [r EXCEPT !.entered = <<value.region>> \o @]

\* 'children: advance children_iter to the next child overlapping the query
children(query, children_iter, stack) ==
    IF children_iter = << >>
    THEN region_search(query, stack)
    ELSE LET value == Head(children_iter)
             rest  == Tail(children_iter)
         IN IF ROverlaps(value.region, query)
            THEN LET r == IF value.kind = "Bucket"
                          THEN next_outer(query, value.points,
                                          Append(stack, rest))
                          ELSE children(query, value.subregions,
                                        Append(stack, rest))
                 IN [r EXCEPT !.entered = <<value.region>> \o @]
            ELSE children(query, rest, stack)

\* RangeQuery::next
next(self) == next_outer(self.query, self.points, self.stack)

----------------------------------------------------------------------------
(* The program *)

NoCursor == [live |-> FALSE, query |-> Rect(0, 0, 0, 0), points |-> << >>,
             stack |-> << >>]

\* the record of a call, and the history keeping the last two of them
Call(op, arg, r) == [op |-> op, arg |-> arg, st |-> r.st, ret |-> r.ret]
Push(h, e) == IF Len(h) < 2 THEN Append(h, e) ELSE Append(Tail(h), e)

Init ==
    /\ size \in Sizes
    /\ tree \in {new(r, size) : r \in Roots}
    /\ status = "running"
    /\ hist = << >>
    /\ calls = 0
    /\ inserted = EmptyBag
    /\ removed = EmptyBag
    /\ obs = None
    /\ cursor = NoCursor
    /\ yielded = << >>
    /\ finished = FALSE
    /\ nones = 0

\* tree.insert(point); a &mut borrow, so no cursor is alive
InsertCall(point) ==
    /\ status = "running"
    /\ ~cursor.live
    /\ calls < MaxCalls
    /\ LET r == insert(tree, point, 0) IN
       /\ hist' = Push(hist, Call("insert", point, r))
       /\ calls' = calls + 1
       /\ obs' = None
       /\ IF r.st = "ok"
          THEN /\ tree' = r.tree
               /\ inserted' = IF r.ret THEN inserted (+) SetToBag({point})
                              ELSE inserted
               /\ UNCHANGED status
          ELSE /\ status' = r.st
               /\ UNCHANGED <<tree, inserted>>
    /\ UNCHANGED <<size, removed, cursor, yielded, finished, nones>>

\* tree.remove(&point); a &mut borrow, so no cursor is alive
RemoveCall(point) ==
    /\ status = "running"
    /\ ~cursor.live
    /\ calls < MaxCalls
    /\ LET r == remove(tree, point) IN
       /\ hist' = Push(hist, Call("remove", point, r))
       /\ calls' = calls + 1
       /\ obs' = None
       /\ IF r.st = "ok"
          THEN /\ tree' = r.tree
               /\ removed' = IF r.ret THEN removed (+) SetToBag({point})
                             ELSE removed
               /\ UNCHANGED status
          ELSE /\ status' = r.st
               /\ UNCHANGED <<tree, removed>>
    /\ UNCHANGED <<size, inserted, cursor, yielded, finished, nones>>

\* tree.nearby(&point); a read, which a live cursor would allow as well: it
\* changes neither the tree nor the cursor, so it is taken between cursors
NearbyCall(point) ==
    /\ status = "running"
    /\ ~cursor.live
    /\ obs' = Some([op |-> "nearby", arg |-> point,
                    slice |-> nearby(tree, point), flag |-> FALSE])
    /\ UNCHANGED <<tree, size, status, hist, calls, inserted, removed, cursor,
                   yielded, finished, nones>>

\* tree.contains(&point); a read, taken between cursors like nearby
ContainsCall(point) ==
    /\ status = "running"
    /\ ~cursor.live
    /\ obs' = Some([op |-> "contains", arg |-> point,
                    slice |-> None, flag |-> contains(tree, point)])
    /\ UNCHANGED <<tree, size, status, hist, calls, inserted, removed, cursor,
                   yielded, finished, nones>>

\* let cursor = tree.range_query(&query)
RangeQueryCall(query) ==
    /\ status = "running"
    /\ ~cursor.live
    /\ cursor' = range_query(tree, query)
    /\ yielded' = << >>
    /\ finished' = FALSE
    /\ nones' = 0
    /\ obs' = None
    /\ UNCHANGED <<tree, size, status, hist, calls, inserted, removed>>

\* cursor.next()
NextCall ==
    /\ status = "running"
    /\ cursor.live
    /\ nones < MaxNones
    /\ LET r == next(cursor) IN
       /\ cursor' = [cursor EXCEPT !.points = r.points, !.stack = r.stack]
       /\ yielded' = IF r.ret = None THEN yielded ELSE yielded \o r.ret
       /\ finished' = (r.ret = None)
       /\ nones' = IF r.ret = None THEN nones + 1 ELSE nones
    /\ UNCHANGED <<tree, size, status, hist, calls, inserted, removed, obs>>

\* the cursor goes out of scope
DropCursor ==
    /\ status = "running"
    /\ cursor.live
    /\ cursor' = NoCursor
    /\ yielded' = << >>
    /\ finished' = FALSE
    /\ nones' = 0
    /\ UNCHANGED <<tree, size, status, hist, calls, inserted, removed, obs>>

Next ==
    \/ \E p \in PointSet : InsertCall(p)
    \/ \E p \in PointSet : RemoveCall(p)
    \/ \E p \in PointSet : NearbyCall(p)
    \/ \E p \in PointSet : ContainsCall(p)
    \/ \E q \in Queries \cup {tree.region} : RangeQueryCall(q)
    \/ NextCall
    \/ DropCursor

Spec == Init /\ [][Next]_vars

\* the same program over a Region whose split breaks the partition invariant
InitGap ==
    /\ size \in Sizes
    /\ tree = new(GapRoot, size)
    /\ status = "running"
    /\ hist = << >>
    /\ calls = 0
    /\ inserted = EmptyBag
    /\ removed = EmptyBag
    /\ obs = None
    /\ cursor = NoCursor
    /\ yielded = << >>
    /\ finished = FALSE
    /\ nones = 0

SpecGap == InitGap /\ [][Next]_vars

----------------------------------------------------------------------------
(* Views of the tree used by the properties *)

RECURSIVE BucketsOf(_)
\* the Buckets of a tree
BucketsOf(node) ==
    IF node.kind = "Bucket"
    THEN {node}
    ELSE UNION {BucketsOf(node.subregions[i]) : i \in 1 .. Len(node.subregions)}

RECURSIVE StoredSeq(_)
RECURSIVE StoredAll(_)
\* the points of all the Buckets, in pre-order
StoredSeq(node) ==
    IF node.kind = "Bucket" THEN node.points ELSE StoredAll(node.subregions)
StoredAll(nodes) ==
    IF nodes = << >> THEN << >>
    ELSE StoredSeq(Head(nodes)) \o StoredAll(Tail(nodes))

RECURSIVE Depth(_)
\* number of Branch levels: 1 for a tree as built by new
Depth(node) ==
    IF node.kind = "Bucket" THEN 0
    ELSE LET ds == {Depth(node.subregions[i]) : i \in 1 .. Len(node.subregions)}
         IN 1 + (CHOOSE d \in ds : \A e \in ds : e <= d)

SeqToBag(s) ==
    [e \in {s[i] : i \in DOMAIN s} |-> Cardinality({i \in DOMAIN s : s[i] = e})]

Count(s, e) == Cardinality({i \in DOMAIN s : s[i] = e})

\* the part of a bag of points inside a region
InQuery(B, q) == [e \in {x \in DOMAIN B : RContains(q, x)} |-> B[e]]

LastCall == hist[Len(hist)]

----------------------------------------------------------------------------
(* Properties *)

C2_InsertRoundTrip ==
    (hist # << >> /\ LastCall.op = "insert" /\ LastCall.st = "ok" /\ LastCall.ret)
        => LET p == LastCall.arg IN
           /\ contains(tree, p)
           /\ (obs # None /\ obs[1].op = "nearby" /\ obs[1].arg = p)
                => /\ obs[1].slice # None
                   /\ \E i \in DOMAIN obs[1].slice[1] : obs[1].slice[1][i] = p
           /\ (cursor.live /\ finished /\ cursor.query = tree.region)
                => Count(yielded, p) = CopiesIn(p, inserted) - CopiesIn(p, removed)

\* C2 as stated: the query over the root region yields p exactly once
C2_Original ==
    (hist # << >> /\ LastCall.op = "insert" /\ LastCall.st = "ok" /\ LastCall.ret)
        => LET p == LastCall.arg IN
           /\ (obs # None /\ obs[1].op = "nearby" /\ obs[1].arg = p)
                => /\ obs[1].slice # None
                   /\ \E i \in DOMAIN obs[1].slice[1] : obs[1].slice[1][i] = p
           /\ (cursor.live /\ finished /\ cursor.query = tree.region)
                => Count(yielded, p) = 1

\* a drained query over the root region right after a second insert(p)
C2_Witness ==
    /\ hist # << >> /\ LastCall.op = "insert" /\ LastCall.st = "ok" /\ LastCall.ret
    /\ cursor.live /\ finished /\ cursor.query = tree.region
    /\ Count(yielded, LastCall.arg) = 2
    /\ Len(yielded) > 2

\* C3: between calls no Bucket holds more points than its bucket_limit.
C3_CapacityBound ==
    \A b \in BucketsOf(tree) : Len(b.points) <= b.bucket_limit

\* a full Bucket below a Branch made by a split
C3_Witness ==
    /\ Depth(tree) >= 2
    /\ \E b \in BucketsOf(tree) :
          b.bucket_limit > 0 /\ Len(b.points) = b.bucket_limit /\ b.region.lvl >= 2

RECURSIVE InRegions(_, _)
\* every point below node lies in the regions of anc and in the region of
\* every node between node and its Bucket
InRegions(node, anc) ==
    IF node.kind = "Bucket"
    THEN \A i \in DOMAIN node.points :
            \A r \in anc \cup {node.region} : RContains(r, node.points[i])
    ELSE \A i \in DOMAIN node.subregions :
            InRegions(node.subregions[i], anc \cup {node.region})

\* C4: every stored point lies in the region of its Bucket and in the region
\* of every ancestor of that Bucket.
C4_PointsInRegions == InRegions(tree, {})

\* points stored three levels below the root, after a split inside a split
C4_Witness ==
    /\ Depth(tree) >= 3
    /\ \E b \in BucketsOf(tree) : b.region.lvl >= 3 /\ b.points # << >>

\* C5: a call of insert or remove with a point outside the root region
\* returns false, a call of nearby with such a point returns None, and each
\* leaves the tree as it was.
C5_OutsideRegion ==
    [][ /\ (calls' = calls + 1 /\ ~RContains(tree.region, hist'[Len(hist')].arg))
            => /\ hist'[Len(hist')].st = "ok"
               /\ hist'[Len(hist')].ret = FALSE
               /\ tree' = tree
        /\ (obs' # obs /\ obs' # None /\ obs'[1].op = "nearby"
              /\ ~RContains(tree.region, obs'[1].arg))
            => /\ obs'[1].slice = None
               /\ tree' = tree ]_vars

\* insert, remove and nearby have all been called with an outside point on a
\* tree that stores points
C5_Witness ==
    /\ Len(hist) = 2
    /\ hist[1].op = "insert" /\ hist[2].op = "remove"
    /\ \A i \in 1 .. 2 : ~RContains(tree.region, hist[i].arg) /\ ~hist[i].ret
    /\ obs # None /\ obs[1].op = "nearby" /\ obs[1].slice = None
    /\ ~RContains(tree.region, obs[1].arg)
    /\ StoredSeq(tree) # << >>

\* the last two calls were insert(p), which returned true, and remove(p)
InsertThenRemove(p) ==
    /\ Len(hist) = 2
    /\ hist[1].op = "insert" /\ hist[1].arg = p /\ hist[1].st = "ok" /\ hist[1].ret
    /\ hist[2].op = "remove" /\ hist[2].arg = p

\* this step is a call of remove(p)
RemoveStep(p) ==
    /\ calls' = calls + 1
    /\ hist'[Len(hist')].op = "remove" /\ hist'[Len(hist')].arg = p

\* this step is a call of nearby(p)
NearbyStep(p) ==
    /\ obs' # obs /\ obs' # None
    /\ obs'[1].op = "nearby" /\ obs'[1].arg = p

\* every insert(p) that returned true was undone by a remove(p) that
\* returned true
Balanced(p) == CopiesIn(p, inserted) = CopiesIn(p, removed)

\* C6 as amended: remove(p) right after an insert(p) that returned true
\* returns true; if no point equal to p was stored when that insert was
\* called, a second remove(p) right after returns false and changes nothing,
\* and nearby(p) then holds no point equal to p.
C6_InsertRemoveRemove ==
    [][ \A p \in PointSet : InsertThenRemove(p) =>
          /\ hist[2].st = "ok" /\ hist[2].ret
          /\ Balanced(p) =>
               /\ RemoveStep(p) => /\ hist'[2].st = "ok" /\ ~hist'[2].ret
                                   /\ tree' = tree
               /\ NearbyStep(p) =>
                    \A i \in DOMAIN obs'[1].slice[1] : obs'[1].slice[1][i] # p
      ]_vars

\* C6 as stated, in any tree state
C6_Original ==
    [][ \A p \in PointSet : InsertThenRemove(p) =>
          /\ hist[2].st = "ok" /\ hist[2].ret
          /\ RemoveStep(p) => hist'[2].st = "ok" /\ ~hist'[2].ret
          /\ NearbyStep(p) =>
               \A i \in DOMAIN obs'[1].slice[1] : obs'[1].slice[1][i] # p
      ]_vars

\* insert(p), remove(p), remove(p) on the new tree answered true, true,
\* false, and nearby(p) was called afterwards
C6_Witness ==
    \E p \in PointSet :
        /\ calls = 3
        /\ inserted = SetToBag({p}) /\ removed = SetToBag({p})
        /\ Len(hist) = 2
        /\ hist[1].op = "remove" /\ hist[1].arg = p /\ hist[1].ret
        /\ hist[2].op = "remove" /\ hist[2].arg = p /\ ~hist[2].ret
        /\ obs # None /\ obs[1].op = "nearby" /\ obs[1].arg = p
        /\ obs[1].slice = Some(<< >>)

\* C7: remove(p) for a point p of the root region that is not stored returns
\* false and leaves the tree as it was.
C7_RemoveAbsent ==
    [][ \A p \in PointSet :
          (RemoveStep(p) /\ RContains(tree.region, p)
             /\ Count(StoredSeq(tree), p) = 0)
          => /\ hist'[Len(hist')].st = "ok"
             /\ ~hist'[Len(hist')].ret
             /\ tree' = tree ]_vars

\* remove(p) answered false for a point p that is not stored but whose
\* Bucket holds other points
C7_Witness ==
    /\ hist # << >> /\ LastCall.op = "remove" /\ ~LastCall.ret
    /\ RContains(tree.region, LastCall.arg)
    /\ Count(StoredSeq(tree), LastCall.arg) = 0
    /\ \E b \in BucketsOf(tree) :
          RContains(b.region, LastCall.arg) /\ b.points # << >>

RECURSIVE LeavesFor(_, _)
\* the Buckets reached from node through children whose region contains p
LeavesFor(node, p) ==
    IF node.kind = "Bucket"
    THEN {node}
    ELSE UNION {LeavesFor(node.subregions[i], p) :
                  i \in {j \in DOMAIN node.subregions :
                            RContains(node.subregions[j].region, p)}}

\* C8: nearby(p) is None exactly when the root region does not contain p;
\* otherwise one Bucket is reached through the children whose region
\* contains p, and nearby(p) is its whole point list, of at most `size`
\* points.
C8_Nearby ==
    (obs # None /\ obs[1].op = "nearby")
        => LET p == obs[1].arg
               r == obs[1].slice
           IN /\ (r = None) <=> ~RContains(tree.region, p)
              /\ r # None =>
                   /\ Cardinality(LeavesFor(tree, p)) = 1
                   /\ \A b \in LeavesFor(tree, p) : r[1] = b.points
                   /\ Len(r[1]) <= size

\* nearby answered with a full Bucket that a split made
C8_Witness ==
    /\ obs # None /\ obs[1].op = "nearby" /\ obs[1].slice # None
    /\ size = 2 /\ Len(obs[1].slice[1]) = 2
    /\ \E b \in LeavesFor(tree, obs[1].arg) : b.region.lvl >= 2

\* size + 1 calls were made on the new tree, all of them inserts that
\* returned true, of points of the i-th sub-region of the root
FirstInsertsIn(i) ==
    /\ calls = size + 1
    /\ BagCardinality(inserted) = size + 1
    /\ \A p \in DOMAIN inserted : RContains(tree.subregions[i].region, p)

\* the i-th child of the root is a Branch of Buckets and the other children
\* are Buckets without points
OneSplitAt(i) ==
    /\ tree.subregions[i].kind = "Branch"
    /\ \A j \in DOMAIN tree.subregions[i].subregions :
          tree.subregions[i].subregions[j].kind = "Bucket"
    /\ \A k \in DOMAIN tree.subregions \ {i} :
          tree.subregions[k].kind = "Bucket" /\ tree.subregions[k].points = << >>

\* the inserted points do not all lie in one sub-region of the i-th
\* sub-region of the root
SpreadIn(i) ==
    \A j \in DOMAIN RSplit(tree.subregions[i].region) :
        \E p \in DOMAIN inserted :
            ~RContains(RSplit(tree.subregions[i].region)[j], p)

\* C9 as amended: on a new tree of capacity c over a region that splits four
\* ways, inserting c + 1 points that all lie in one sub-region of the root,
\* but not all in one sub-region of that sub-region, splits that sub-region's
\* Bucket once, into a Branch of Buckets, and leaves the sibling sub-regions
\* as empty Buckets.
C9_OneSplit ==
    \A i \in DOMAIN tree.subregions :
        (Len(tree.subregions) = 4 /\ FirstInsertsIn(i) /\ SpreadIn(i))
            => OneSplitAt(i)

\* C9 as stated: for any c + 1 points of one sub-region of the root
C9_Original ==
    \A i \in DOMAIN tree.subregions :
        (Len(tree.subregions) = 4 /\ FirstInsertsIn(i)) => OneSplitAt(i)

\* three points of one quadrant were inserted into a new tree of capacity 2
C9_Witness ==
    \E i \in DOMAIN tree.subregions :
        /\ size = 2 /\ FirstInsertsIn(i) /\ SpreadIn(i) /\ OneSplitAt(i)
        /\ Len(StoredSeq(tree.subregions[i])) = 3

\* the child of the root whose region contains p
QuadrantOf(p) ==
    tree.subregions[CHOOSE i \in DOMAIN tree.subregions :
                        RContains(tree.subregions[i].region, p)]

\* (0,0), (1,1), (2,2) were inserted in that order into the new tree of
\* capacity 2 over [0,4)x[0,4)
Scenario10 ==
    /\ tree.region = Root4 /\ size = 2 /\ calls = 3
    /\ inserted = SeqToBag(<< <<0, 0>>, <<1, 1>>, <<2, 2>> >>)
    /\ hist = << [op |-> "insert", arg |-> <<1, 1>>, st |-> "ok", ret |-> TRUE],
                 [op |-> "insert", arg |-> <<2, 2>>, st |-> "ok", ret |-> TRUE] >>

\* C10: in that scenario nothing has split: the quadrant of (0,0) and (1,1)
\* is a Bucket with exactly these two points, the quadrant of (2,2) is a
\* Bucket with exactly that point, and a drained query over [0,2)x[0,2)
\* yielded exactly (0,0) and (1,1).
C10_Scenario ==
    Scenario10 =>
        /\ Depth(tree) = 1
        /\ QuadrantOf(<<0, 0>>) = QuadrantOf(<<1, 1>>)
        /\ QuadrantOf(<<0, 0>>).kind = "Bucket"
        /\ SeqToBag(QuadrantOf(<<0, 0>>).points)
              = SeqToBag(<< <<0, 0>>, <<1, 1>> >>)
        /\ QuadrantOf(<<2, 2>>).kind = "Bucket"
        /\ QuadrantOf(<<2, 2>>).points = << <<2, 2>> >>
        /\ (cursor.live /\ finished /\ cursor.query = Rect(0, 0, 2, 2))
              => SeqToBag(yielded) = SeqToBag(<< <<0, 0>>, <<1, 1>> >>)

\* the scenario with the query over [0,2)x[0,2) drained
C10_Witness ==
    /\ Scenario10
    /\ cursor.live /\ finished /\ cursor.query = Rect(0, 0, 2, 2)
    /\ Len(yielded) = 2

\* p lies in the root region but the descent meets a Branch none of whose
\* children contains it
Orphan(p) == RContains(tree.region, p) /\ LeavesFor(tree, p) = {}

\* this step is a call of insert(p)
InsertStep(p) ==
    /\ calls' = calls + 1
    /\ hist'[Len(hist')].op = "insert" /\ hist'[Len(hist')].arg = p

\* C11: when the descent of insert, remove or nearby meets a Branch whose
\* region contains the point while none of its children's regions does, the
\* call panics: it neither returns nor goes on.
C11_PartitionPanic ==
    [][ \A p \in PointSet : Orphan(p) =>
          /\ (InsertStep(p) \/ RemoveStep(p))
                => hist'[Len(hist')].st = "panicked" /\ status' = "panicked"
          /\ NearbyStep(p) => status' = "panicked"
      ]_vars

\* C12: a cursor returns None after at most as many next() calls as the tree
\* stores points, plus one; every next() call returns either one more point
\* or None; and once it has returned None every later call returns None,
\* with the candidate points and the stack left empty.
C12_CursorTerminal ==
    [][ (cursor.live /\ cursor'.live) =>
          /\ finished' <=> (nones' = nones + 1 /\ yielded' = yielded)
          /\ ~finished' => /\ Len(yielded') = Len(yielded) + 1
                           /\ Len(yielded') <= Len(StoredSeq(tree))
          /\ finished' => cursor'.points = << >> /\ cursor'.stack = << >>
          /\ finished => finished'
      ]_vars

\* a cursor that yielded two points and then returned None twice
C12_Witness ==
    /\ cursor.live /\ finished /\ nones = 2
    /\ Len(yielded) >= 2

RECURSIVE Matching(_, _)
\* the points of a sequence that lie inside the query, in their order
Matching(pts, q) ==
    IF pts = << >> THEN << >>
    ELSE IF RContains(q, Head(pts))
         THEN <<Head(pts)>> \o Matching(Tail(pts), q)
         ELSE Matching(Tail(pts), q)

\* C13: the cursor yields the matching points in the order of a pre-order
\* walk over the children in sibling order, the points of one Bucket in the
\* order of its list: what it has yielded is at any time the beginning of
\* that sequence, and all of it once the cursor has returned None.
C13_TraversalOrder ==
    cursor.live =>
        LET all == Matching(StoredSeq(tree), cursor.query) IN
        /\ Len(yielded) <= Len(all)
        /\ yielded = SubSeq(all, 1, Len(yielded))
        /\ finished => yielded = all

\* a drained cursor that yielded two points of one Bucket and points of other
\* Buckets, one of them made by a split
C13_Witness ==
    /\ cursor.live /\ finished
    /\ Depth(tree) >= 2
    /\ Len(yielded) >= 3
    /\ \E b \in BucketsOf(tree) :
          /\ Len(b.points) >= 2 /\ b.points[1] # b.points[2]
          /\ Matching(b.points, cursor.query) = b.points
    /\ \E b \in BucketsOf(tree) :
          b.region.lvl >= 2 /\ Matching(b.points, cursor.query) # << >>

\* C14: a next() call goes into a node (makes a Bucket's points the
\* candidates, iterates a Branch's children) only if the node's region
\* overlaps the query, and it compares with the query only points of Buckets
\* whose region overlaps the query.
C14_Pruning ==
    [][ (cursor.live /\ cursor'.live) =>
          LET r == next(cursor) IN
          /\ \A i \in DOMAIN r.entered : ROverlaps(r.entered[i], cursor.query)
          /\ \A i \in DOMAIN r.tested :
                \A b \in BucketsOf(tree) :
                    Count(b.points, r.tested[i]) > 0
                        => ROverlaps(b.region, cursor.query)
          /\ \A i \in DOMAIN yielded' :
                \A b \in BucketsOf(tree) :
                    Count(b.points, yielded'[i]) > 0
                        => ROverlaps(b.region, cursor.query)
      ]_vars

\* a drained cursor that passed over a Bucket with points that does not
\* overlap the query and yielded points of Buckets that come after it
C14_Witness ==
    /\ cursor.live /\ finished
    /\ Len(yielded) >= 2
    /\ \E b \in BucketsOf(tree) :
          /\ b.points # << >>
          /\ ~ROverlaps(b.region, cursor.query)
          /\ StoredSeq(tree)[1] = b.points[1]

RECURSIVE Shape(_)
\* the tree without its points
Shape(node) ==
    IF node.kind = "Bucket"
    THEN [node EXCEPT !.points = << >>]
    ELSE Branch(node.region,
                [i \in DOMAIN node.subregions |-> Shape(node.subregions[i])])

RECURSIVE BucketSeq(_)
RECURSIVE BucketAll(_)
\* the Buckets of a tree, in pre-order
BucketSeq(node) ==
    IF node.kind = "Bucket" THEN <<node>> ELSE BucketAll(node.subregions)
BucketAll(nodes) ==
    IF nodes = << >> THEN << >>
    ELSE BucketSeq(Head(nodes)) \o BucketAll(Tail(nodes))

\* C15: a remove(p) that returns true leaves the shape of the tree and every
\* Bucket but the one reached by the descent as they were (an emptied Bucket
\* stays a Bucket), and takes exactly one point equal to p out of that
\* Bucket, whose other points stay the same as a multiset.
C15_RemoveFrame ==
    [][ \A p \in PointSet :
          (RemoveStep(p) /\ hist'[Len(hist')].ret) =>
             /\ Shape(tree') = Shape(tree)
             /\ \E k \in DOMAIN BucketSeq(tree) :
                   /\ BucketSeq(tree)[k] \in LeavesFor(tree, p)
                   /\ SeqToBag(BucketSeq(tree)[k].points)
                        = SeqToBag(BucketSeq(tree')[k].points) (+) SetToBag({p})
                   /\ \A j \in DOMAIN BucketSeq(tree) \ {k} :
                         BucketSeq(tree')[j] = BucketSeq(tree)[j]
      ]_vars

\* a remove emptied a Bucket that a split had made, and other points are
\* still stored
C15_Witness ==
    /\ hist # << >> /\ LastCall.op = "remove" /\ LastCall.ret
    /\ Depth(tree) >= 2
    /\ StoredSeq(tree) # << >>
    /\ \E b \in LeavesFor(tree, LastCall.arg) :
          b.points = << >> /\ b.region.lvl >= 2

\* C16: the shape of the tree changes only in an insert that reaches a
\* Bucket holding bucket_limit points; an insert that reaches a Bucket with
\* fewer points returns true, puts the point at the end of that Bucket's list
\* and leaves the shape and every other Bucket as they were.
C16_InsertFrame ==
    [][ /\ Shape(tree') # Shape(tree) =>
             \E p \in PointSet :
                /\ InsertStep(p)
                /\ \E b \in LeavesFor(tree, p) : Len(b.points) = b.bucket_limit
        /\ \A p \in PointSet :
             \A k \in DOMAIN BucketSeq(tree) :
                (/\ InsertStep(p) /\ RContains(tree.region, p)
                 /\ BucketSeq(tree)[k] \in LeavesFor(tree, p)
                 /\ Len(BucketSeq(tree)[k].points) < BucketSeq(tree)[k].bucket_limit)
                => /\ hist'[Len(hist')].st = "ok" /\ hist'[Len(hist')].ret
                   /\ Shape(tree') = Shape(tree)
                   /\ BucketSeq(tree')[k].points
                        = Append(BucketSeq(tree)[k].points, p)
                   /\ \A j \in DOMAIN BucketSeq(tree) \ {k} :
                         BucketSeq(tree')[j] = BucketSeq(tree)[j]
      ]_vars

\* the fourth of four inserts into the first quadrant of a tree of capacity
\* 2 added a point to a Bucket that the split at the third insert had made
C16_Witness ==
    /\ hist # << >> /\ LastCall.op = "insert" /\ LastCall.ret
    /\ size = 2 /\ calls = 4
    /\ Len(StoredSeq(tree.subregions[1])) = 4
    /\ Depth(tree) = 2
    /\ \E b \in LeavesFor(tree, LastCall.arg) :
          /\ b.region.lvl >= 2 /\ Len(b.points) = 2
          /\ b.points[2] = LastCall.arg /\ b.points[1] # LastCall.arg

\* C17: an insert(p) that reaches a full Bucket all of whose points are equal
\* to p (at every level of splitting they and p fall into one sub-region)
\* splits again at every level and never returns.
C17_DuplicatesDiverge ==
    [][ \A p \in PointSet :
          (/\ InsertStep(p) /\ RContains(tree.region, p)
           /\ \E b \in LeavesFor(tree, p) :
                 /\ Len(b.points) = b.bucket_limit
                 /\ \A i \in DOMAIN b.points : b.points[i] = p)
          => /\ hist'[Len(hist')].st = "diverged"
             /\ status' = "diverged"
      ]_vars

\* the insert of a third point equal to the two points of a full Bucket did
\* not return
C17_Witness ==
    /\ status = "diverged"
    /\ LastCall.op = "insert" /\ LastCall.st = "diverged"
    /\ \E b \in LeavesFor(tree, LastCall.arg) :
          /\ b.bucket_limit = 2
          /\ b.points = <<LastCall.arg, LastCall.arg>>

\* an insert does not return only if the points of the full Bucket it reached
\* are all equal to the new point (the depth bound cuts no insert that would
\* return)
DivergedOnlyOnEqualPoints ==
    status = "diverged" =>
        \A b \in LeavesFor(tree, LastCall.arg) :
            \A i \in DOMAIN b.points : b.points[i] = LastCall.arg

\* C18: every Bucket of the tree, at any depth, has the bucket_limit given to
\* new as `size`.
C18_LimitPropagated ==
    \A b \in BucketsOf(tree) : b.bucket_limit = size

\* Buckets three levels below the root, made by a split inside a split
C18_Witness ==
    /\ Depth(tree) >= 3
    /\ size > 0
    /\ \E b \in BucketsOf(tree) : b.region.lvl >= 3 /\ Len(b.points) = size

\* the stored points are the inserted ones less the removed ones
Conserved ==
    status = "running" => SeqToBag(StoredSeq(tree)) = inserted (-) removed

RECURSIVE SplitFrame(_, _, _)
\* t2 is t but for the Bucket that the descent for p reaches, in whose place
\* t2 has a tree over the same region that stores that Bucket's points and p
SplitFrame(t, t2, p) ==
    IF t.kind = "Bucket"
    THEN /\ t2.region = t.region
         /\ SeqToBag(StoredSeq(t2)) = SeqToBag(t.points) (+) SetToBag({p})
    ELSE /\ t2.kind = "Branch"
         /\ t2.region = t.region
         /\ Len(t2.subregions) = Len(t.subregions)
         /\ \A i \in DOMAIN t.subregions :
               IF RContains(t.subregions[i].region, p)
               THEN SplitFrame(t.subregions[i], t2.subregions[i], p)
               ELSE t2.subregions[i] = t.subregions[i]

\* C19: while all calls return, the multiset of the stored points is the
\* multiset of the points whose insert returned true less one occurrence for
\* every remove that returned true; and an insert that splits a full Bucket
\* puts that Bucket's points and the new point, no more and no less, into the
\* subtree that takes its place, and changes no Bucket outside it.
C19_Conservation ==
    [][ /\ Conserved
        /\ Conserved'
        /\ \A p \in PointSet :
             (/\ InsertStep(p) /\ hist'[Len(hist')].st = "ok"
              /\ \E b \in LeavesFor(tree, p) : Len(b.points) = b.bucket_limit)
             => SplitFrame(tree, tree', p)
      ]_vars

\* after four calls the tree has stored points, given one back to a remove
\* and split a Bucket
C19_Witness ==
    /\ status = "running"
    /\ hist # << >> /\ LastCall.op = "insert" /\ LastCall.ret
    /\ removed # EmptyBag
    /\ Depth(tree) >= 2
    /\ calls = 4
    /\ Len(StoredSeq(tree)) = 2

RECURSIVE WellFormed(_)
\* every Branch has one child per sub-region of its split, in split order
WellFormed(node) ==
    IF node.kind = "Bucket"
    THEN TRUE
    ELSE /\ Len(node.subregions) = Len(RSplit(node.region))
         /\ \A i \in DOMAIN node.subregions :
               /\ node.subregions[i].region = RSplit(node.region)[i]
               /\ WellFormed(node.subregions[i])

\* C20: the tree returned by new is a Branch with one empty Bucket per
\* sub-region of split(), in split order; afterwards the root stays a Branch
\* over the same region, and every Branch has as many children as split() of
\* its region returns, the i-th child over the i-th sub-region.
C20_BranchStructure ==
    [][ /\ calls = 0 =>
              \A i \in DOMAIN tree.subregions :
                  /\ tree.subregions[i].kind = "Bucket"
                  /\ tree.subregions[i].points = << >>
        /\ tree.kind = "Branch" /\ WellFormed(tree)
        /\ tree'.kind = "Branch" /\ WellFormed(tree')
        /\ tree'.region = tree.region
      ]_vars

\* a tree over [0,8)x[0,8) with Branches on three levels
C20_Witness ==
    /\ tree.region = Root8
    /\ Depth(tree) = 3
    /\ calls >= 2

====
